---- MODULE Spec2Model ----
(***************************************************************************)
(* A model of app.py, a Streamlit dashboard script over a CSV of city AQI  *)
(* readings.  Every user interaction re-runs the whole script for that     *)
(* user's session: load_data (cached) -> clean column names -> detect the  *)
(* city/date/AQI columns and derive Year/Month -> annotate AQI_Category -> *)
(* sidebar filters -> the four tabs -> the data table.                     *)
(*                                                                         *)
(* A DataFrame is [columns, dtypes, data]: the column names (each name the  *)
(* sequence of its code points, so that strip/replace/lower are computed), *)
(* the dtype of each column and the rows (each a sequence of               *)
(* cells aligned with columns).  Computed floats are exact rationals       *)
(* [num, den]; den = 0 is NaN.                                             *)
(***************************************************************************)
EXTENDS Integers, Sequences, FiniteSets, TLC

VARIABLES pandas, csv, cache, sess, probe

vars == <<pandas, csv, cache, sess, probe>>

-----------------------------------------------------------------------------
(* Missing values.                                                         *)

\* A missing numeric cell (float NaN), below every value a cell can hold.
NaN == 0 - 100000

\* A missing cell of a text column (the same float NaN, written as a string
\* where the other cells of the column are strings).
NaS == "NaN"

\* pandas' NaT: every component is missing.
NaT == [y |-> NaN, m |-> NaN, d |-> NaN]

\* Python's None for a column name that was not detected (falsy, like "").
None == <<>>

\* IEEE comparison: any comparison with NaN is False.
Le(a, b) == a # NaN /\ b # NaN /\ a <= b

-----------------------------------------------------------------------------
(* Exact rational arithmetic standing for float64.                         *)

RECURSIVE Gcd(_, _)
Gcd(a, b) == IF b = 0 THEN a ELSE Gcd(b, a % b)

Abs(a) == IF a < 0 THEN 0 - a ELSE a

RNaN == [num |-> 0, den |-> 0]

IsNaN(r) == r.den = 0

\* n/d in lowest terms with a positive denominator; d = 0 gives NaN.
Rat(n, d) ==
    IF d = 0 THEN RNaN
    ELSE LET g == Gcd(Abs(n), Abs(d))
             s == IF d < 0 THEN 0 - 1 ELSE 1
         IN  [num |-> (s * n) \div g, den |-> (s * d) \div g]

RInt(n) == IF n = NaN THEN RNaN ELSE [num |-> n, den |-> 1]

\* Sums and products reduce before they multiply, so that the intermediate
\* values stay as small as the result allows.
RAdd(a, b) ==
    IF IsNaN(a) \/ IsNaN(b) THEN RNaN
    ELSE LET g == Gcd(a.den, b.den)
         IN  Rat(a.num * (b.den \div g) + b.num * (a.den \div g),
                 (a.den \div g) * b.den)

RSub(a, b) == RAdd(a, [num |-> 0 - b.num, den |-> b.den])

RMul(a, b) ==
    IF IsNaN(a) \/ IsNaN(b) THEN RNaN
    ELSE LET g1 == Gcd(Abs(a.num), b.den)
             g2 == Gcd(Abs(b.num), a.den)
         IN  Rat((a.num \div g1) * (b.num \div g2),
                 (a.den \div g2) * (b.den \div g1))

RDiv(a, b) ==
    IF IsNaN(a) \/ IsNaN(b) \/ b.num = 0 THEN RNaN
    ELSE RMul(a, IF b.num < 0 THEN [num |-> 0 - b.den, den |-> 0 - b.num]
                 ELSE [num |-> b.den, den |-> b.num])

\* a < b on floats; False when either is NaN.
RLt(a, b) == ~IsNaN(a) /\ ~IsNaN(b) /\ a.num * b.den < b.num * a.den

-----------------------------------------------------------------------------
(* Column names: a str is the sequence of its Unicode code points.         *)

\* The printable ASCII characters from " " (32) to "_" (95) and from "a"
\* (97) to "~" (126).
UpToUnderscore ==
    <<" ","!","\"","#","$","%","&","'","(",")","*","+",",","-",".","/",
      "0","1","2","3","4","5","6","7","8","9",":",";","<","=",">","?",
      "@","A","B","C","D","E","F","G","H","I","J","K","L","M","N","O",
      "P","Q","R","S","T","U","V","W","X","Y","Z","[","\\","]","^","_">>

FromSmallA ==
    <<"a","b","c","d","e","f","g","h","i","j","k","l","m","n","o",
      "p","q","r","s","t","u","v","w","x","y","z","{","|","}","~">>

\* ord(ch) of one of these characters or of a tab
Ord(ch) ==
    IF ch = "\t" THEN 9
    ELSE IF \E i \in 1..Len(UpToUnderscore) : UpToUnderscore[i] = ch
    THEN 31 + (CHOOSE i \in 1..Len(UpToUnderscore) : UpToUnderscore[i] = ch)
    ELSE 96 + (CHOOSE i \in 1..Len(FromSmallA) : FromSmallA[i] = ch)

\* The str spelled by a sequence of such characters.
Str(chars) == [i \in 1..Len(chars) |-> Ord(chars[i])]

\* A code point lies in one of the ranges <<lo, hi>>.
InRanges(c, ranges) ==
    \E i \in 1..Len(ranges) : ranges[i][1] <= c /\ c <= ranges[i][2]

\* Simple lower-case mappings (Unicode 14.0, as CPython 3.11 has them):
\* <<lo, hi, step, delta>> maps lo, lo + step, ..., hi to itself + delta.
LowerRuns ==
    << <<65,90,1,32>>, <<192,214,1,32>>, <<216,222,1,32>>, <<256,302,2,1>>,
       <<306,310,2,1>>, <<313,327,2,1>>, <<330,374,2,1>>, <<376,376,1,-121>>,
       <<377,381,2,1>>, <<385,385,1,210>>, <<386,388,2,1>>, <<390,390,1,206>>,
       <<391,391,1,1>>, <<393,394,1,205>>, <<395,395,1,1>>, <<398,398,1,79>>,
       <<399,399,1,202>>, <<400,400,1,203>>, <<401,401,1,1>>, <<403,403,1,205>>,
       <<404,404,1,207>>, <<406,406,1,211>>, <<407,407,1,209>>, <<408,408,1,1>>,
       <<412,412,1,211>>, <<413,413,1,213>>, <<415,415,1,214>>, <<416,420,2,1>>,
       <<422,422,1,218>>, <<423,423,1,1>>, <<425,425,1,218>>, <<428,428,1,1>>,
       <<430,430,1,218>>, <<431,431,1,1>>, <<433,434,1,217>>, <<435,437,2,1>>,
       <<439,439,1,219>>, <<440,440,1,1>>, <<444,444,1,1>>, <<452,452,1,2>>,
       <<453,453,1,1>>, <<455,455,1,2>>, <<456,456,1,1>>, <<458,458,1,2>>,
       <<459,475,2,1>>, <<478,494,2,1>>, <<497,497,1,2>>, <<498,500,2,1>>,
       <<502,502,1,-97>>, <<503,503,1,-56>>, <<504,542,2,1>>, <<544,544,1,-130>>,
       <<546,562,2,1>>, <<570,570,1,10795>>, <<571,571,1,1>>, <<573,573,1,-163>>,
       <<574,574,1,10792>>, <<577,577,1,1>>, <<579,579,1,-195>>, <<580,580,1,69>>,
       <<581,581,1,71>>, <<582,590,2,1>>, <<880,882,2,1>>, <<886,886,1,1>>,
       <<895,895,1,116>>, <<902,902,1,38>>, <<904,906,1,37>>, <<908,908,1,64>>,
       <<910,911,1,63>>, <<913,929,1,32>>, <<932,939,1,32>>, <<975,975,1,8>>,
       <<984,1006,2,1>>, <<1012,1012,1,-60>>, <<1015,1015,1,1>>, <<1017,1017,1,-7>>,
       <<1018,1018,1,1>>, <<1021,1023,1,-130>>, <<1024,1039,1,80>>, <<1040,1071,1,32>>,
       <<1120,1152,2,1>>, <<1162,1214,2,1>>, <<1216,1216,1,15>>, <<1217,1229,2,1>>,
       <<1232,1326,2,1>>, <<1329,1366,1,48>>, <<4256,4293,1,7264>>, <<4295,4295,1,7264>>,
       <<4301,4301,1,7264>>, <<5024,5103,1,38864>>, <<5104,5109,1,8>>, <<7312,7354,1,-3008>>,
       <<7357,7359,1,-3008>>, <<7680,7828,2,1>>, <<7838,7838,1,-7615>>, <<7840,7934,2,1>>,
       <<7944,7951,1,-8>>, <<7960,7965,1,-8>>, <<7976,7983,1,-8>>, <<7992,7999,1,-8>>,
       <<8008,8013,1,-8>>, <<8025,8031,2,-8>>, <<8040,8047,1,-8>>, <<8072,8079,1,-8>>,
       <<8088,8095,1,-8>>, <<8104,8111,1,-8>>, <<8120,8121,1,-8>>, <<8122,8123,1,-74>>,
       <<8124,8124,1,-9>>, <<8136,8139,1,-86>>, <<8140,8140,1,-9>>, <<8152,8153,1,-8>>,
       <<8154,8155,1,-100>>, <<8168,8169,1,-8>>, <<8170,8171,1,-112>>, <<8172,8172,1,-7>>,
       <<8184,8185,1,-128>>, <<8186,8187,1,-126>>, <<8188,8188,1,-9>>, <<8486,8486,1,-7517>>,
       <<8490,8490,1,-8383>>, <<8491,8491,1,-8262>>, <<8498,8498,1,28>>, <<8544,8559,1,16>>,
       <<8579,8579,1,1>>, <<9398,9423,1,26>>, <<11264,11311,1,48>>, <<11360,11360,1,1>>,
       <<11362,11362,1,-10743>>, <<11363,11363,1,-3814>>, <<11364,11364,1,-10727>>, <<11367,11371,2,1>>,
       <<11373,11373,1,-10780>>, <<11374,11374,1,-10749>>, <<11375,11375,1,-10783>>, <<11376,11376,1,-10782>>,
       <<11378,11378,1,1>>, <<11381,11381,1,1>>, <<11390,11391,1,-10815>>, <<11392,11490,2,1>>,
       <<11499,11501,2,1>>, <<11506,11506,1,1>>, <<42560,42604,2,1>>, <<42624,42650,2,1>>,
       <<42786,42798,2,1>>, <<42802,42862,2,1>>, <<42873,42875,2,1>>, <<42877,42877,1,-35332>>,
       <<42878,42886,2,1>>, <<42891,42891,1,1>>, <<42893,42893,1,-42280>>, <<42896,42898,2,1>>,
       <<42902,42920,2,1>>, <<42922,42922,1,-42308>>, <<42923,42923,1,-42319>>, <<42924,42924,1,-42315>>,
       <<42925,42925,1,-42305>>, <<42926,42926,1,-42308>>, <<42928,42928,1,-42258>>, <<42929,42929,1,-42282>>,
       <<42930,42930,1,-42261>>, <<42931,42931,1,928>>, <<42932,42946,2,1>>, <<42948,42948,1,-48>>,
       <<42949,42949,1,-42307>>, <<42950,42950,1,-35384>>, <<42951,42953,2,1>>, <<42960,42960,1,1>>,
       <<42966,42968,2,1>>, <<42997,42997,1,1>>, <<65313,65338,1,32>>, <<66560,66599,1,40>>,
       <<66736,66771,1,40>>, <<66928,66964,2,39>>, <<66929,66938,1,39>>, <<66941,66954,1,39>>,
       <<66957,66962,1,39>>, <<66965,66965,1,39>>, <<68736,68786,1,64>>, <<71840,71871,1,32>>,
       <<93760,93791,1,32>>, <<125184,125217,1,34>> >>

\* The code points with the property Cased.
CasedRanges ==
    << <<65,90>>, <<97,122>>, <<170,170>>, <<181,181>>, <<186,186>>,
       <<192,214>>, <<216,246>>, <<248,442>>, <<444,447>>, <<452,659>>,
       <<661,696>>, <<704,705>>, <<736,740>>, <<837,837>>, <<880,883>>,
       <<886,887>>, <<890,893>>, <<895,895>>, <<902,902>>, <<904,906>>,
       <<908,908>>, <<910,929>>, <<931,1013>>, <<1015,1153>>, <<1162,1327>>,
       <<1329,1366>>, <<1376,1416>>, <<4256,4293>>, <<4295,4295>>, <<4301,4301>>,
       <<4304,4346>>, <<4349,4351>>, <<5024,5109>>, <<5112,5117>>, <<7296,7304>>,
       <<7312,7354>>, <<7357,7359>>, <<7424,7615>>, <<7680,7957>>, <<7960,7965>>,
       <<7968,8005>>, <<8008,8013>>, <<8016,8023>>, <<8025,8025>>, <<8027,8027>>,
       <<8029,8029>>, <<8031,8061>>, <<8064,8116>>, <<8118,8124>>, <<8126,8126>>,
       <<8130,8132>>, <<8134,8140>>, <<8144,8147>>, <<8150,8155>>, <<8160,8172>>,
       <<8178,8180>>, <<8182,8188>>, <<8305,8305>>, <<8319,8319>>, <<8336,8348>>,
       <<8450,8450>>, <<8455,8455>>, <<8458,8467>>, <<8469,8469>>, <<8473,8477>>,
       <<8484,8484>>, <<8486,8486>>, <<8488,8488>>, <<8490,8493>>, <<8495,8500>>,
       <<8505,8505>>, <<8508,8511>>, <<8517,8521>>, <<8526,8526>>, <<8544,8575>>,
       <<8579,8580>>, <<9398,9449>>, <<11264,11492>>, <<11499,11502>>, <<11506,11507>>,
       <<11520,11557>>, <<11559,11559>>, <<11565,11565>>, <<42560,42605>>, <<42624,42653>>,
       <<42786,42887>>, <<42891,42894>>, <<42896,42954>>, <<42960,42961>>, <<42963,42963>>,
       <<42965,42969>>, <<42997,42998>>, <<43000,43002>>, <<43824,43866>>, <<43868,43880>>,
       <<43888,43967>>, <<64256,64262>>, <<64275,64279>>, <<65313,65338>>, <<65345,65370>>,
       <<66560,66639>>, <<66736,66771>>, <<66776,66811>>, <<66928,66938>>, <<66940,66954>>,
       <<66956,66962>>, <<66964,66965>>, <<66967,66977>>, <<66979,66993>>, <<66995,67001>>,
       <<67003,67004>>, <<67456,67456>>, <<67459,67461>>, <<67463,67504>>, <<67506,67514>>,
       <<68736,68786>>, <<68800,68850>>, <<71840,71903>>, <<93760,93823>>, <<119808,119892>>,
       <<119894,119964>>, <<119966,119967>>, <<119970,119970>>, <<119973,119974>>, <<119977,119980>>,
       <<119982,119993>>, <<119995,119995>>, <<119997,120003>>, <<120005,120069>>, <<120071,120074>>,
       <<120077,120084>>, <<120086,120092>>, <<120094,120121>>, <<120123,120126>>, <<120128,120132>>,
       <<120134,120134>>, <<120138,120144>>, <<120146,120485>>, <<120488,120512>>, <<120514,120538>>,
       <<120540,120570>>, <<120572,120596>>, <<120598,120628>>, <<120630,120654>>, <<120656,120686>>,
       <<120688,120712>>, <<120714,120744>>, <<120746,120770>>, <<120772,120779>>, <<122624,122633>>,
       <<122635,122654>>, <<125184,125251>>, <<127280,127305>>, <<127312,127337>>, <<127344,127369>> >>

\* The code points with the property Case_Ignorable.
CaseIgnorableRanges ==
    << <<39,39>>, <<46,46>>, <<58,58>>, <<94,94>>, <<96,96>>,
       <<168,168>>, <<173,173>>, <<175,175>>, <<180,180>>, <<183,184>>,
       <<688,879>>, <<884,885>>, <<890,890>>, <<900,901>>, <<903,903>>,
       <<1155,1161>>, <<1369,1369>>, <<1375,1375>>, <<1425,1469>>, <<1471,1471>>,
       <<1473,1474>>, <<1476,1477>>, <<1479,1479>>, <<1524,1524>>, <<1536,1541>>,
       <<1552,1562>>, <<1564,1564>>, <<1600,1600>>, <<1611,1631>>, <<1648,1648>>,
       <<1750,1757>>, <<1759,1768>>, <<1770,1773>>, <<1807,1807>>, <<1809,1809>>,
       <<1840,1866>>, <<1958,1968>>, <<2027,2037>>, <<2042,2042>>, <<2045,2045>>,
       <<2070,2093>>, <<2137,2139>>, <<2184,2184>>, <<2192,2193>>, <<2200,2207>>,
       <<2249,2306>>, <<2362,2362>>, <<2364,2364>>, <<2369,2376>>, <<2381,2381>>,
       <<2385,2391>>, <<2402,2403>>, <<2417,2417>>, <<2433,2433>>, <<2492,2492>>,
       <<2497,2500>>, <<2509,2509>>, <<2530,2531>>, <<2558,2558>>, <<2561,2562>>,
       <<2620,2620>>, <<2625,2626>>, <<2631,2632>>, <<2635,2637>>, <<2641,2641>>,
       <<2672,2673>>, <<2677,2677>>, <<2689,2690>>, <<2748,2748>>, <<2753,2757>>,
       <<2759,2760>>, <<2765,2765>>, <<2786,2787>>, <<2810,2815>>, <<2817,2817>>,
       <<2876,2876>>, <<2879,2879>>, <<2881,2884>>, <<2893,2893>>, <<2901,2902>>,
       <<2914,2915>>, <<2946,2946>>, <<3008,3008>>, <<3021,3021>>, <<3072,3072>>,
       <<3076,3076>>, <<3132,3132>>, <<3134,3136>>, <<3142,3144>>, <<3146,3149>>,
       <<3157,3158>>, <<3170,3171>>, <<3201,3201>>, <<3260,3260>>, <<3263,3263>>,
       <<3270,3270>>, <<3276,3277>>, <<3298,3299>>, <<3328,3329>>, <<3387,3388>>,
       <<3393,3396>>, <<3405,3405>>, <<3426,3427>>, <<3457,3457>>, <<3530,3530>>,
       <<3538,3540>>, <<3542,3542>>, <<3633,3633>>, <<3636,3642>>, <<3654,3662>>,
       <<3761,3761>>, <<3764,3772>>, <<3782,3782>>, <<3784,3789>>, <<3864,3865>>,
       <<3893,3893>>, <<3895,3895>>, <<3897,3897>>, <<3953,3966>>, <<3968,3972>>,
       <<3974,3975>>, <<3981,3991>>, <<3993,4028>>, <<4038,4038>>, <<4141,4144>>,
       <<4146,4151>>, <<4153,4154>>, <<4157,4158>>, <<4184,4185>>, <<4190,4192>>,
       <<4209,4212>>, <<4226,4226>>, <<4229,4230>>, <<4237,4237>>, <<4253,4253>>,
       <<4348,4348>>, <<4957,4959>>, <<5906,5908>>, <<5938,5939>>, <<5970,5971>>,
       <<6002,6003>>, <<6068,6069>>, <<6071,6077>>, <<6086,6086>>, <<6089,6099>>,
       <<6103,6103>>, <<6109,6109>>, <<6155,6159>>, <<6211,6211>>, <<6277,6278>>,
       <<6313,6313>>, <<6432,6434>>, <<6439,6440>>, <<6450,6450>>, <<6457,6459>>,
       <<6679,6680>>, <<6683,6683>>, <<6742,6742>>, <<6744,6750>>, <<6752,6752>>,
       <<6754,6754>>, <<6757,6764>>, <<6771,6780>>, <<6783,6783>>, <<6823,6823>>,
       <<6832,6862>>, <<6912,6915>>, <<6964,6964>>, <<6966,6970>>, <<6972,6972>>,
       <<6978,6978>>, <<7019,7027>>, <<7040,7041>>, <<7074,7077>>, <<7080,7081>>,
       <<7083,7085>>, <<7142,7142>>, <<7144,7145>>, <<7149,7149>>, <<7151,7153>>,
       <<7212,7219>>, <<7222,7223>>, <<7288,7293>>, <<7376,7378>>, <<7380,7392>>,
       <<7394,7400>>, <<7405,7405>>, <<7412,7412>>, <<7416,7417>>, <<7468,7530>>,
       <<7544,7544>>, <<7579,7679>>, <<8125,8125>>, <<8127,8129>>, <<8141,8143>>,
       <<8157,8159>>, <<8173,8175>>, <<8189,8190>>, <<8203,8207>>, <<8216,8217>>,
       <<8228,8228>>, <<8231,8231>>, <<8234,8238>>, <<8288,8292>>, <<8294,8303>>,
       <<8305,8305>>, <<8319,8319>>, <<8336,8348>>, <<8400,8432>>, <<11388,11389>>,
       <<11503,11505>>, <<11631,11631>>, <<11647,11647>>, <<11744,11775>>, <<11823,11823>>,
       <<12293,12293>>, <<12330,12333>>, <<12337,12341>>, <<12347,12347>>, <<12441,12446>>,
       <<12540,12542>>, <<40981,40981>>, <<42232,42237>>, <<42508,42508>>, <<42607,42610>>,
       <<42612,42621>>, <<42623,42623>>, <<42652,42655>>, <<42736,42737>>, <<42752,42785>>,
       <<42864,42864>>, <<42888,42890>>, <<42994,42996>>, <<43000,43001>>, <<43010,43010>>,
       <<43014,43014>>, <<43019,43019>>, <<43045,43046>>, <<43052,43052>>, <<43204,43205>>,
       <<43232,43249>>, <<43263,43263>>, <<43302,43309>>, <<43335,43345>>, <<43392,43394>>,
       <<43443,43443>>, <<43446,43449>>, <<43452,43453>>, <<43471,43471>>, <<43493,43494>>,
       <<43561,43566>>, <<43569,43570>>, <<43573,43574>>, <<43587,43587>>, <<43596,43596>>,
       <<43632,43632>>, <<43644,43644>>, <<43696,43696>>, <<43698,43700>>, <<43703,43704>>,
       <<43710,43711>>, <<43713,43713>>, <<43741,43741>>, <<43756,43757>>, <<43763,43764>>,
       <<43766,43766>>, <<43867,43871>>, <<43881,43883>>, <<44005,44005>>, <<44008,44008>>,
       <<44013,44013>>, <<64286,64286>>, <<64434,64450>>, <<65024,65039>>, <<65043,65043>>,
       <<65056,65071>>, <<65106,65106>>, <<65109,65109>>, <<65279,65279>>, <<65287,65287>>,
       <<65294,65294>>, <<65306,65306>>, <<65342,65342>>, <<65344,65344>>, <<65392,65392>>,
       <<65438,65439>>, <<65507,65507>>, <<65529,65531>>, <<66045,66045>>, <<66272,66272>>,
       <<66422,66426>>, <<67456,67461>>, <<67463,67504>>, <<67506,67514>>, <<68097,68099>>,
       <<68101,68102>>, <<68108,68111>>, <<68152,68154>>, <<68159,68159>>, <<68325,68326>>,
       <<68900,68903>>, <<69291,69292>>, <<69446,69456>>, <<69506,69509>>, <<69633,69633>>,
       <<69688,69702>>, <<69744,69744>>, <<69747,69748>>, <<69759,69761>>, <<69811,69814>>,
       <<69817,69818>>, <<69821,69821>>, <<69826,69826>>, <<69837,69837>>, <<69888,69890>>,
       <<69927,69931>>, <<69933,69940>>, <<70003,70003>>, <<70016,70017>>, <<70070,70078>>,
       <<70089,70092>>, <<70095,70095>>, <<70191,70193>>, <<70196,70196>>, <<70198,70199>>,
       <<70206,70206>>, <<70367,70367>>, <<70371,70378>>, <<70400,70401>>, <<70459,70460>>,
       <<70464,70464>>, <<70502,70508>>, <<70512,70516>>, <<70712,70719>>, <<70722,70724>>,
       <<70726,70726>>, <<70750,70750>>, <<70835,70840>>, <<70842,70842>>, <<70847,70848>>,
       <<70850,70851>>, <<71090,71093>>, <<71100,71101>>, <<71103,71104>>, <<71132,71133>>,
       <<71219,71226>>, <<71229,71229>>, <<71231,71232>>, <<71339,71339>>, <<71341,71341>>,
       <<71344,71349>>, <<71351,71351>>, <<71453,71455>>, <<71458,71461>>, <<71463,71467>>,
       <<71727,71735>>, <<71737,71738>>, <<71995,71996>>, <<71998,71998>>, <<72003,72003>>,
       <<72148,72151>>, <<72154,72155>>, <<72160,72160>>, <<72193,72202>>, <<72243,72248>>,
       <<72251,72254>>, <<72263,72263>>, <<72273,72278>>, <<72281,72283>>, <<72330,72342>>,
       <<72344,72345>>, <<72752,72758>>, <<72760,72765>>, <<72767,72767>>, <<72850,72871>>,
       <<72874,72880>>, <<72882,72883>>, <<72885,72886>>, <<73009,73014>>, <<73018,73018>>,
       <<73020,73021>>, <<73023,73029>>, <<73031,73031>>, <<73104,73105>>, <<73109,73109>>,
       <<73111,73111>>, <<73459,73460>>, <<78896,78904>>, <<92912,92916>>, <<92976,92982>>,
       <<92992,92995>>, <<94031,94031>>, <<94095,94111>>, <<94176,94177>>, <<94179,94180>>,
       <<110576,110579>>, <<110581,110587>>, <<110589,110590>>, <<113821,113822>>, <<113824,113827>>,
       <<118528,118573>>, <<118576,118598>>, <<119143,119145>>, <<119155,119170>>, <<119173,119179>>,
       <<119210,119213>>, <<119362,119364>>, <<121344,121398>>, <<121403,121452>>, <<121461,121461>>,
       <<121476,121476>>, <<121499,121503>>, <<121505,121519>>, <<122880,122886>>, <<122888,122904>>,
       <<122907,122913>>, <<122915,122916>>, <<122918,122922>>, <<123184,123197>>, <<123566,123566>>,
       <<123628,123631>>, <<125136,125142>>, <<125252,125259>>, <<127995,127999>>, <<917505,917505>>,
       <<917536,917631>>, <<917760,917999>> >>

Cased(c) == InRanges(c, CasedRanges)

CaseIgnorable(c) == InRanges(c, CaseIgnorableRanges)

CapitalSigma == 931
FinalSmallSigma == 962
SmallSigma == 963
CapitalIDotAbove == 304
SmallI == 105
CombiningDotAbove == 775

\* The lower case of one character other than capital sigma: U+0130 gives
\* two characters, every other one itself or its simple mapping.
LowerChar(c) ==
    IF c = CapitalIDotAbove THEN <<SmallI, CombiningDotAbove>>
    ELSE IF \E i \in 1..Len(LowerRuns) :
               /\ LowerRuns[i][1] <= c /\ c <= LowerRuns[i][2]
               /\ (c - LowerRuns[i][1]) % LowerRuns[i][3] = 0
    THEN LET i == CHOOSE k \in 1..Len(LowerRuns) :
                    /\ LowerRuns[k][1] <= c /\ c <= LowerRuns[k][2]
                    /\ (c - LowerRuns[k][1]) % LowerRuns[k][3] = 0
         IN  <<c + LowerRuns[i][4]>>
    ELSE <<c>>

\* The capital sigma at position i ends a word: the nearest character
\* before it that is not case-ignorable is cased, and the nearest one after
\* it that is not case-ignorable (if any) is not cased.
FinalSigma(name, i) ==
    LET before == {j \in 1..(i - 1) : ~CaseIgnorable(name[j])}
        after  == {j \in (i + 1)..Len(name) : ~CaseIgnorable(name[j])}
    IN  /\ before # {}
        /\ Cased(name[CHOOSE j \in before : \A k \in before : k <= j])
        /\ \/ after = {}
           \/ ~Cased(name[CHOOSE j \in after : \A k \in after : j <= k])

RECURSIVE LowerFrom(_, _)
LowerFrom(name, i) ==
    IF i > Len(name) THEN <<>>
    ELSE (IF name[i] = CapitalSigma
          THEN <<IF FinalSigma(name, i) THEN FinalSmallSigma ELSE SmallSigma>>
          ELSE LowerChar(name[i])) \o LowerFrom(name, i + 1)

\* str.lower()
Lower(name) == LowerFrom(name, 1)

\* The characters str.strip() removes: those str.isspace() holds of.
WhitespaceRanges ==
    << <<9,13>>, <<28,32>>, <<133,133>>, <<160,160>>, <<5760,5760>>,
       <<8192,8202>>, <<8232,8233>>, <<8239,8239>>, <<8287,8287>>,
       <<12288,12288>> >>

Whitespace(c) == InRanges(c, WhitespaceRanges)

RECURSIVE LStrip(_)
LStrip(name) ==
    IF name # <<>> /\ Whitespace(Head(name))
    THEN LStrip(Tail(name)) ELSE name

RECURSIVE RStrip(_)
RStrip(name) ==
    IF name # <<>> /\ Whitespace(name[Len(name)])
    THEN RStrip(SubSeq(name, 1, Len(name) - 1)) ELSE name

\* str.strip(): leading and trailing whitespace removed
Strip(name) == RStrip(LStrip(name))

Space == 32
Underscore == 95

\* str.replace(" ", "_")
ReplaceSpaces(name) ==
    [i \in 1..Len(name) |-> IF name[i] = Space THEN Underscore ELSE name[i]]

YearName == Str(<<"Y","e","a","r">>)
MonthName == Str(<<"M","o","n","t","h">>)
CategoryName == Str(<<"A","Q","I","_","C","a","t","e","g","o","r","y">>)

CitySynonyms == { Str(<<"c","i","t","y">>),
                  Str(<<"c","i","t","y","_","n","a","m","e">>),
                  Str(<<"c","i","t","y","n","a","m","e">>) }
DateSynonyms == { Str(<<"d","a","t","e">>) }
AqiSynonym == Str(<<"a","q","i">>)

-----------------------------------------------------------------------------
(* classify_aqi, app.py 47-53.                                             *)

GoodMax == 50
SatisfactoryMax == 100
ModerateMax == 200
PoorMax == 300
VeryPoorMax == 400

\* classify_aqi with the first band's bound taken as exclusive (a faulty
\* variant, for comparison).
classify_aqi_strict(aqi) ==
    IF aqi # NaN /\ aqi < GoodMax THEN "Good"
    ELSE IF Le(aqi, SatisfactoryMax) THEN "Satisfactory"
    ELSE IF Le(aqi, ModerateMax) THEN "Moderate"
    ELSE IF Le(aqi, PoorMax) THEN "Poor"
    ELSE IF Le(aqi, VeryPoorMax) THEN "Very Poor"
    ELSE "Severe"

classify_aqi(aqi) ==
    IF Le(aqi, GoodMax) THEN "Good"
    ELSE IF Le(aqi, SatisfactoryMax) THEN "Satisfactory"
    ELSE IF Le(aqi, ModerateMax) THEN "Moderate"
    ELSE IF Le(aqi, PoorMax) THEN "Poor"
    ELSE IF Le(aqi, VeryPoorMax) THEN "Very Poor"
    ELSE "Severe"

-----------------------------------------------------------------------------
(* DataFrame operations (pandas), as app.py uses them.                     *)

RECURSIVE SumSeq(_)
SumSeq(q) == IF q = <<>> THEN 0 ELSE Head(q) + SumSeq(Tail(q))

HasCol(df, name) == \E i \in 1..Len(df.columns) : df.columns[i] = name

ColIndex(df, name) == CHOOSE i \in 1..Len(df.columns) : df.columns[i] = name

\* df[name]: the column as a sequence of cells
Column(df, name) ==
    [r \in 1..Len(df.data) |-> df.data[r][ColIndex(df, name)]]

\* df[name] = series (in place): replaces the column or appends a new one
SetColumn(df, name, series, dtype) ==
    IF HasCol(df, name)
    THEN LET c == ColIndex(df, name)
         IN  [columns |-> df.columns,
              dtypes  |-> [df.dtypes EXCEPT ![c] = dtype],
              data    |-> [r \in 1..Len(df.data) |->
                              [df.data[r] EXCEPT ![c] = series[r]]]]
    ELSE [columns |-> Append(df.columns, name),
          dtypes  |-> Append(df.dtypes, dtype),
          data    |-> [r \in 1..Len(df.data) |-> Append(df.data[r], series[r])]]

RECURSIVE KeepRows(_, _, _)
KeepRows(data, mask, r) ==
    IF r > Len(data) THEN <<>>
    ELSE IF mask[r] THEN <<data[r]>> \o KeepRows(data, mask, r + 1)
    ELSE KeepRows(data, mask, r + 1)

\* df[mask]: a new DataFrame holding the rows whose mask is True, in order
SelectRows(df, mask) ==
    [columns |-> df.columns, dtypes |-> df.dtypes,
     data |-> KeepRows(df.data, mask, 1)]

\* series.isin(values)
IsIn(series, values) == [r \in 1..Len(series) |-> series[r] \in values]

\* series.dropna().unique(), as the set of values offered
DropnaUnique(series, na) == {series[r] : r \in 1..Len(series)} \ {na}

\* The non-missing values of a numeric series, in order.
RECURSIVE Valid(_)
Valid(series) ==
    IF series = <<>> THEN <<>>
    ELSE IF Head(series) = NaN THEN Valid(Tail(series))
    ELSE <<Head(series)>> \o Valid(Tail(series))

\* series.mean(): skipna; NaN when no value is present
SeriesMean(series) ==
    LET v == Valid(series)
    IN  IF v = <<>> THEN RNaN ELSE Rat(SumSeq(v), Len(v))

\* series.max(): skipna; NaN when no value is present
SeriesMax(series) ==
    LET v == Valid(series)
    IN  IF v = <<>> THEN RNaN
        ELSE RInt(CHOOSE x \in {v[i] : i \in 1..Len(v)} :
                    \A j \in 1..Len(v) : v[j] <= x)

\* series.min()
SeriesMin(series) ==
    LET v == Valid(series)
    IN  IF v = <<>> THEN RNaN
        ELSE RInt(CHOOSE x \in {v[i] : i \in 1..Len(v)} :
                    \A j \in 1..Len(v) : x <= v[j])

\* series.std() is the square root of this sample variance (ddof = 1);
\* NaN with fewer than two values.
SeriesVar(series) ==
    LET v == Valid(series)
        n == Len(v)
        sq == [i \in 1..n |-> v[i] * v[i]]
    IN  IF n < 2 THEN RNaN
        ELSE Rat(n * SumSeq(sq) - SumSeq(v) * SumSeq(v), n * (n - 1))

\* The keys of a set in ascending order of rank.
RECURSIVE SortedKeys(_, _)
SortedKeys(S, rank) ==
    IF S = {} THEN <<>>
    ELSE LET k == CHOOSE x \in S : \A y \in S : rank[x] <= rank[y]
         IN  <<k>> \o SortedKeys(S \ {k}, rank)

\* df.groupby(key)[val].mean(): one entry per distinct non-missing key, in
\* ascending key order; the mean skips missing values and is NaN for a
\* group with none.
GroupByMean(df, key, val, na, rank) ==
    LET ks == Column(df, key)
        vs == Column(df, val)
        keys == SortedKeys(DropnaUnique(ks, na), rank)
        group(k) == KeepRows(vs, [r \in 1..Len(ks) |-> ks[r] = k], 1)
    IN  [i \in 1..Len(keys) |->
            [key |-> keys[i], mean |-> SeriesMean(group(keys[i]))]]

\* head(n)
HeadN(q, n) == SubSeq(q, 1, IF n < Len(q) THEN n ELSE Len(q))

\* series.idxmax() on a groupby result: the label of the first largest
\* non-missing mean.  On an empty series it raises ValueError.  On a series
\* of missing means only, pandas before 3.0 returns NaN and pandas 3.0
\* raises: raisesOnAllNA is the installed build's behaviour.
IdxMax(groups, raisesOnAllNA) ==
    LET ok == {i \in 1..Len(groups) : ~IsNaN(groups[i].mean)}
    IN  IF Len(groups) = 0 THEN [raised |-> TRUE, label |-> NaS]
        ELSE IF ok = {} THEN [raised |-> raisesOnAllNA, label |-> NaS]
        ELSE LET best == CHOOSE i \in ok :
                       /\ \A j \in ok : ~RLt(groups[i].mean, groups[j].mean)
                       /\ \A j \in ok : j < i => RLt(groups[j].mean, groups[i].mean)
             IN  [raised |-> FALSE, label |-> groups[best].key]

\* series.idxmin()
IdxMin(groups, raisesOnAllNA) ==
    LET ok == {i \in 1..Len(groups) : ~IsNaN(groups[i].mean)}
    IN  IF Len(groups) = 0 THEN [raised |-> TRUE, label |-> NaS]
        ELSE IF ok = {} THEN [raised |-> raisesOnAllNA, label |-> NaS]
        ELSE LET best == CHOOSE i \in ok :
                       /\ \A j \in ok : ~RLt(groups[j].mean, groups[i].mean)
                       /\ \A j \in ok : j < i => RLt(groups[i].mean, groups[j].mean)
             IN  [raised |-> FALSE, label |-> groups[best].key]

\* sort_values with ascending=True (a faulty variant, for comparison).
SortValuesAscending(groups) ==
    LET n == Len(groups)
    IN  { [i \in 1..n |-> groups[p[i]]] : p \in
            { q \in Permutations(1..n) :
                \A i, j \in 1..n : i < j =>
                    /\ ~(IsNaN(groups[q[i]].mean) /\ ~IsNaN(groups[q[j]].mean))
                    /\ ~RLt(groups[q[j]].mean, groups[q[i]].mean) } }

\* .reset_index().sort_values(by=pollutant, ascending=False): missing means
\* last; the default sort kind (quicksort) does not fix the order of equal
\* means, so every order of ties is an outcome.
SortValuesDescending(groups) ==
    LET n == Len(groups)
    IN  { [i \in 1..n |-> groups[p[i]]] : p \in
            { q \in Permutations(1..n) :
                \A i, j \in 1..n : i < j =>
                    /\ ~(IsNaN(groups[q[i]].mean) /\ ~IsNaN(groups[q[j]].mean))
                    /\ ~RLt(groups[q[i]].mean, groups[q[j]].mean) } }

-----------------------------------------------------------------------------
(* sklearn.linear_model.LinearRegression on one feature.                   *)

RECURSIVE RSum(_)
RSum(q) == IF q = <<>> THEN RInt(0) ELSE RAdd(Head(q), RSum(Tail(q)))

\* fit(X, y) raises ValueError when y holds NaN.
FitRaises(yearly) == \E i \in 1..Len(yearly) : IsNaN(yearly[i].mean)

\* Ordinary least squares of mean on year: coef_ and intercept_.
Fit(yearly) ==
    LET n == Len(yearly)
        xs == [i \in 1..n |-> RInt(yearly[i].key)]
        ys == [i \in 1..n |-> yearly[i].mean]
        xbar == RDiv(RSum(xs), RInt(n))
        ybar == RDiv(RSum(ys), RInt(n))
        sxy == RSum([i \in 1..n |-> RMul(RSub(xs[i], xbar), RSub(ys[i], ybar))])
        sxx == RSum([i \in 1..n |-> RMul(RSub(xs[i], xbar), RSub(xs[i], xbar))])
        coef == RDiv(sxy, sxx)
    IN  [coef |-> coef, intercept |-> RSub(ybar, RMul(coef, xbar))]

\* model.predict([[x]])
Predict(model, x) == RAdd(model.intercept, RMul(model.coef, RInt(x)))

\* yearly["Year"].max()
MaxKey(yearly) ==
    CHOOSE y \in {yearly[i].key : i \in 1..Len(yearly)} :
        \A i \in 1..Len(yearly) : yearly[i].key <= y

-----------------------------------------------------------------------------
(* The script's own steps as operators on a DataFrame.                     *)

\* The pandas releases the script runs under, by what differs between them
\* here: .dt.year/.dt.month are int64 before 2.0 and int32 from 2.0 on;
\* idxmax/idxmin of a series of missing values only returns NaN before 3.0
\* and raises ValueError from 3.0 on; to_datetime parses strings to
\* datetime64[ns] before 3.0 and to a coarser unit from 3.0 on.
PandasBuilds == {"1.5", "2.2", "3.0"}

NanosecondDates(build) == build # "3.0"

DtIsInt64(build) == build = "1.5"

RaisesOnAllNA(build) == build = "3.0"

NumericDtypes == {"int64", "float64"}

\* What read_csv finds a cell of each kind of column to be when it is empty.
Missing == [city |-> NaS, date |-> NaT, aqi |-> NaN, pm |-> NaN]

\* The rows of column c whose cell is empty.
Empties(file, c) ==
    {r \in 1..Len(file.data) : file.data[r][c] = Missing[file.kinds[c]]}

\* A column that has rows, every one of them empty.
AllEmpty(file, c) ==
    Len(file.data) > 0 /\ Cardinality(Empties(file, c)) = Len(file.data)

\* pd.read_csv: a file without rows gives object columns; a column of empty
\* cells only is float64 (a city column of that kind holds float NaN); a
\* text column is object; a number column is int64, or float64 when a cell
\* is empty.
read_csv(file) ==
    [columns |-> file.columns,
     dtypes  |-> [c \in 1..Len(file.columns) |->
                    IF Len(file.data) = 0 THEN "object"
                    ELSE IF AllEmpty(file, c) THEN "float64"
                    ELSE IF file.kinds[c] \in {"city", "date"} THEN "object"
                    ELSE IF Empties(file, c) # {} THEN "float64" ELSE "int64"],
     data    |-> [r \in 1..Len(file.data) |->
                    [c \in 1..Len(file.columns) |->
                        IF file.kinds[c] = "city" /\ AllEmpty(file, c)
                        THEN NaN ELSE file.data[r][c]]]]

\* How a missing cell of column name is written: NaN in a numeric column.
NaOf(df, name) ==
    IF df.dtypes[ColIndex(df, name)] \in NumericDtypes THEN NaN ELSE NaS

\* load_data handing out the cached object itself, as st.cache_resource or
\* a module-level global would (a faulty variant, for comparison).
load_data_shared(table) == [ref |-> TRUE, df |-> [columns |-> <<>>, dtypes |-> <<>>, data |-> <<>>]]

\* load_data under @st.cache_data, app.py 12-15: every call returns a fresh
\* deserialised copy of the cached value.
load_data(table) == [ref |-> FALSE, df |-> table]

\* app.py 20-21: df.columns.str.strip(), then .str.replace(" ", "_")
CleanColumns(df) ==
    [df EXCEPT !.columns =
        [c \in 1..Len(df.columns) |-> ReplaceSpaces(Strip(df.columns[c]))]]

\* app.py 30-36: the last column whose lower-cased name is in the set.
Detect(columns, names) ==
    LET hits == {c \in 1..Len(columns) : Lower(columns[c]) \in names}
    IN  IF hits = {} THEN None
        ELSE columns[CHOOSE c \in hits : \A k \in hits : k <= c]

IsLeap(y) == (y % 4 = 0 /\ y % 100 # 0) \/ y % 400 = 0

DaysIn(y, m) ==
    IF m = 2 THEN (IF IsLeap(y) THEN 29 ELSE 28)
    ELSE IF m \in {4, 6, 9, 11} THEN 30 ELSE 31

\* A date cell is the year, month and day written in it as YYYY-MM-DD.
MinYear == 1
MaxYear == 9999

\* The days datetime64[ns] holds at midnight: Timestamp.min is
\* 1677-09-21 00:12:43.145224193 and Timestamp.max 2262-04-11 23:47:16.854775807.
FirstNsDay == [y |-> 1677, m |-> 9, d |-> 22]
LastNsDay == [y |-> 2262, m |-> 4, d |-> 11]

\* a is not after b
DateLe(a, b) ==
    \/ a.y < b.y
    \/ a.y = b.y /\ a.m < b.m
    \/ a.y = b.y /\ a.m = b.m /\ a.d <= b.d

\* pd.to_datetime(cell, errors="coerce"): NaT for a missing or invalid
\* date, and before pandas 3.0 (which parses strings to datetime64[ns]) for
\* a date out of the bounds of nanosecond timestamps.
to_datetime(cell, build) ==
    IF /\ cell.y \in MinYear..MaxYear /\ cell.m \in 1..12
       /\ cell.d \in 1..DaysIn(cell.y, cell.m)
       /\ NanosecondDates(build) =>
             DateLe(FirstNsDay, cell) /\ DateLe(cell, LastNsDay)
    THEN cell ELSE NaT

\* .dt.year / .dt.month are float64 when a date is NaT, and else int64 or
\* int32 by the pandas release
DtDtype(dates, build) ==
    IF \E r \in 1..Len(dates) : dates[r] = NaT THEN "float64"
    ELSE IF DtIsInt64(build) THEN "int64" ELSE "int32"

\* app.py 39-42
ConvertDate(df, date_col, build) ==
    IF date_col = None THEN df
    ELSE LET raw   == Column(df, date_col)
             dates == [r \in 1..Len(raw) |-> to_datetime(raw[r], build)]
             d1 == SetColumn(df, date_col, dates, "datetime64")
             d2 == SetColumn(d1, YearName,
                             [r \in 1..Len(raw) |-> dates[r].y],
                             DtDtype(dates, build))
         IN  SetColumn(d2, MonthName,
                       [r \in 1..Len(raw) |-> dates[r].m],
                       DtDtype(dates, build))

\* app.py 55-56: df["AQI_Category"] = df[aqi_col].apply(classify_aqi)
Categorise(df, aqi_col) ==
    IF aqi_col = None THEN df
    ELSE LET a == Column(df, aqi_col)
         IN  SetColumn(df, CategoryName,
                       [r \in 1..Len(a) |-> classify_aqi(a[r])], "object")

\* app.py 66: the cities offered
CityOptions(df, city_col) ==
    IF city_col = None THEN {}
    ELSE DropnaUnique(Column(df, city_col), NaOf(df, city_col))

\* app.py 69
FilterCities(df, city_col, selected_cities) ==
    IF city_col = None THEN df
    ELSE SelectRows(df, IsIn(Column(df, city_col), selected_cities))

\* app.py 74: the years offered, read from the table it is given
YearOptions(df) ==
    IF HasCol(df, YearName) THEN DropnaUnique(Column(df, YearName), NaN) ELSE {}

\* app.py 77
FilterYears(df, selected_years) ==
    IF HasCol(df, YearName)
    THEN SelectRows(df, IsIn(Column(df, YearName), selected_years))
    ELSE df

\* app.py 79: df.select_dtypes(include=["int64", "float64"]).columns
NumericCols(df) ==
    KeepRows(df.columns,
             [c \in 1..Len(df.columns) |-> df.dtypes[c] \in NumericDtypes], 1)

\* Lexicographic order of the city labels, as groupby sorts its keys.
CityOrder == <<"Delhi", "Pune">>

CityRank == [c \in {CityOrder[i] : i \in 1..Len(CityOrder)} |->
                CHOOSE i \in 1..Len(CityOrder) : CityOrder[i] = c]

YearRank == [y \in MinYear..MaxYear |-> y]

\* df.groupby(city_col)[pollutant].mean()
CityMeans(df, city_col, pollutant) ==
    GroupByMean(df, city_col, pollutant, NaOf(df, city_col), CityRank)

\* df.groupby("Year")[pollutant].mean().reset_index(), app.py 208
Yearly(df, pollutant) ==
    GroupByMean(df, YearName, pollutant, NaN, YearRank)

-----------------------------------------------------------------------------
(* The tabs, app.py 98-247: what one run shows, or where it raises.        *)

NoForecast == [shown |-> FALSE, year |-> 0, value |-> RNaN]

NoOutput ==
    [mean |-> RNaN, max |-> RNaN, min |-> RNaN, var |-> RNaN,
     worst_city |-> NaS, best_city |-> NaS, top_data |-> <<>>,
     yearly |-> <<>>, forecast |-> NoForecast, rendered |-> {}, raised |-> ""]

\* app.py 217: yearly["Year"].max() + 1
NextYear(yearly) == MaxKey(yearly) + 1

\* app.py 202-247: the prediction (only with a Year column and at least two
\* year-groups; nothing is shown otherwise), the insights, the data table.
\* With Year itself as the metric, reset_index on line 208 raises ValueError
\* (cannot insert Year, already exists).  The insights repeat tab 1's
\* idxmax/idxmin on the same data, so they raise only where tab 1 already
\* has.
Tab4(df, city_col, pollutant, o) ==
    LET yearly == IF HasCol(df, YearName) /\ pollutant # YearName
                  THEN Yearly(df, pollutant) ELSE <<>>
        o1 == [o EXCEPT !.rendered = @ \cup {"prediction_header"},
                        !.yearly = yearly]
        o2 == IF Len(yearly) >= 2
              THEN [o1 EXCEPT
                      !.forecast = [shown |-> TRUE, year |-> NextYear(yearly),
                                    value |-> Predict(Fit(yearly), NextYear(yearly))],
                      !.rendered = @ \cup {"prediction_metric"}]
              ELSE o1
    IN  IF HasCol(df, YearName) /\ pollutant = YearName
        THEN [o1 EXCEPT !.raised = "tab4: reset_index"]
        ELSE IF Len(yearly) >= 2 /\ FitRaises(yearly)
        THEN [o1 EXCEPT !.raised = "tab4: model.fit"]
        ELSE [o2 EXCEPT !.rendered = @ \cup
                (IF city_col = None THEN {"insights_header", "table"}
                 ELSE {"insights_header", "insights", "table"})]

\* app.py 98-125 followed by the rest of the run: the set of outcomes (one
\* per order of tied means in the ranking).  Without a numeric column the
\* metric is None and df[pollutant] on line 104 raises KeyError.
Tabs(df, city_col, pollutant, top_n, raisesOnAllNA) ==
    LET col == Column(df, pollutant)
        k == [NoOutput EXCEPT !.mean = SeriesMean(col), !.max = SeriesMax(col),
                              !.min = SeriesMin(col), !.var = SeriesVar(col),
                              !.rendered = {"kpi"}]
        groups == CityMeans(df, city_col, pollutant)
        worst == IdxMax(groups, raisesOnAllNA)
        best == IdxMin(groups, raisesOnAllNA)
    IN  IF pollutant = None
        THEN {[NoOutput EXCEPT !.raised = "tab1: df[pollutant]"]}
        ELSE IF city_col = None THEN {Tab4(df, city_col, pollutant, k)}
        ELSE IF worst.raised \/ best.raised
        THEN {[k EXCEPT !.raised = "tab1: idxmax"]}
        ELSE {Tab4(df, city_col, pollutant,
                   [k EXCEPT !.worst_city = worst.label,
                             !.best_city = best.label,
                             !.top_data = HeadN(t, top_n),
                             !.rendered = @ \cup {"worst_best", "top_bar"}]) :
                t \in SortValuesDescending(groups)}

-----------------------------------------------------------------------------
(* Inputs: the CSV file and the user's widget choices.                     *)

\* Rows in the CSV file.
MaxRows == 2

\* classify_aqi on its own is given every integer from -BelowZero to MaxAqi.
MaxAqi == 450
BelowZero == 3

\* st.sidebar.slider("Top N Cities", 1, 20, 5)
TopNMin == 1
TopNMax == 20
TopNDefault == 5

Sessions == {1, 2}

EmptyFrame == [columns |-> <<>>, dtypes |-> <<>>, data |-> <<>>]

\* The cells a file is made of: the dates 2020-01-15, 2021-06-01 and the
\* impossible 2021-02-30, and in the files without a city also 1600-01-01.
\* Readings are missing in the files without a city or without a date.
AllDates ==
    { [y |-> 2020, m |-> 1, d |-> 15],
      [y |-> 2021, m |-> 6, d |-> 1],
      [y |-> 2021, m |-> 2, d |-> 30] }

AllCities == {"Delhi", "Pune", NaS}

CityDateAqiCells ==
    [city |-> AllCities, date |-> AllDates, aqi |-> {100, 120}, pm |-> {40}]

OldDate == [y |-> 1600, m |-> 1, d |-> 1]

DateAqiPmCells ==
    [city |-> AllCities, date |-> AllDates \cup {OldDate},
     aqi |-> {NaN, 100, 120}, pm |-> {40}]

CityPmCells ==
    [city |-> AllCities, date |-> AllDates, aqi |-> {100, 120}, pm |-> {NaN, 40}]

\* The smaller files two concurrent sessions are run on.
FewCells ==
    [city |-> {"Delhi", NaS},
     date |-> { [y |-> 2020, m |-> 1, d |-> 15],
                [y |-> 2021, m |-> 2, d |-> 30] },
     aqi  |-> {120},
     pm   |-> {40}]

\* Headers as they stand in the file: "City Name ", " Date", "AQI" after a
\* tab, "PM 2.5"
CityHeader == Str(<<"C","i","t","y"," ","N","a","m","e"," ">>)
DateHeader == Str(<<" ","D","a","t","e">>)
AqiHeader == Str(<<"\t","A","Q","I">>)
PmHeader == Str(<<"P","M"," ","2",".","5">>)

CityDateAqi == [columns |-> <<CityHeader, DateHeader, AqiHeader>>,
                kinds   |-> <<"city", "date", "aqi">>]

DateAqiPm == [columns |-> <<DateHeader, AqiHeader, PmHeader>>,
              kinds   |-> <<"date", "aqi", "pm">>]

CityPm == [columns |-> <<CityHeader, PmHeader>>, kinds |-> <<"city", "pm">>]

PmOnly == [columns |-> <<PmHeader>>, kinds |-> <<"pm">>]

RECURSIVE RowsOf(_, _)
RowsOf(kinds, cells) ==
    IF kinds = <<>> THEN {<<>>}
    ELSE {<<c>> \o r : c \in cells[Head(kinds)], r \in RowsOf(Tail(kinds), cells)}

\* Every file of no to maxRows rows in layout L.
Files(L, cells, maxRows) ==
    { [columns |-> L.columns, kinds |-> L.kinds, data |-> rows] :
        rows \in UNION {[1..n -> RowsOf(L.kinds, cells)] : n \in 0..maxRows} }

\* app.py 81: st.sidebar.selectbox offers every numeric column (the first
\* by default) and returns None when there is none.
MetricChoices(numeric_cols) ==
    IF numeric_cols = <<>> THEN {None}
    ELSE {numeric_cols[i] : i \in 1..Len(numeric_cols)}

\* The slider positions tried: the lowest and the default.
TopNChoices == {n \in {TopNMin, TopNDefault} : n \in TopNMin..TopNMax}

-----------------------------------------------------------------------------
(* State.                                                                  *)
(*   pandas the pandas release installed                                   *)
(*   csv    the file on disk                                               *)
(*   cache  st.cache_data's entry for load_data: [loaded, table]           *)
(*   sess   per user session: the position of its script run, its df (ref  *)
(*          says that df is the cached object itself), the detected        *)
(*          columns, the widget values and what the run has shown          *)
(*   probe  one value handed to classify_aqi and the label it returned     *)

NewSession(on) ==
    [pc |-> IF on THEN "start" ELSE "off",
     ref |-> FALSE, df |-> EmptyFrame,
     city_col |-> None, date_col |-> None, aqi_col |-> None,
     city_options |-> {}, selected_cities |-> {},
     year_options |-> {}, selected_years |-> {},
     pollutant |-> None, top_n |-> 0, out |-> NoOutput]

\* The DataFrame the session's name df is bound to.
Df(s) == IF sess[s].ref THEN cache.table ELSE sess[s].df

\* An in-place change of the object df names: it lands in the cache when
\* that object is the cached one.
Mutate(s, newdf, pc) ==
    /\ sess' = [sess EXCEPT ![s].pc = pc,
                            ![s].df = IF sess[s].ref THEN @ ELSE newdf]
    /\ cache' = IF sess[s].ref THEN [cache EXCEPT !.table = newdf] ELSE cache

NoProbe == [aqi |-> 0, label |-> "", applied |-> FALSE]

Init ==
    /\ pandas \in PandasBuilds
    /\ \/ csv \in Files(CityDateAqi, CityDateAqiCells, MaxRows)
       \/ csv \in Files(DateAqiPm, DateAqiPmCells, MaxRows)
       \/ csv \in Files(CityPm, CityPmCells, MaxRows)
    /\ cache = [loaded |-> FALSE, table |-> EmptyFrame]
    /\ sess = [s \in Sessions |-> NewSession(s = 1)]
    /\ probe = NoProbe

\* app.py 17: df = load_data(); the first call reads the file
LoadData(s) ==
    /\ sess[s].pc = "start"
    /\ LET table == IF cache.loaded THEN cache.table ELSE read_csv(csv)
           got == load_data(table)
       IN  /\ cache' = [loaded |-> TRUE, table |-> table]
           /\ sess' = [sess EXCEPT ![s].pc = "loaded", ![s].ref = got.ref,
                                   ![s].df = got.df]
    /\ UNCHANGED <<pandas, csv, probe>>

\* app.py 20-21
Clean(s) ==
    /\ sess[s].pc = "loaded"
    /\ Mutate(s, CleanColumns(Df(s)), "cleaned")
    /\ UNCHANGED <<pandas, csv, probe>>

\* app.py 26-36
DetectColumns(s) ==
    /\ sess[s].pc = "cleaned"
    /\ sess' = [sess EXCEPT
                  ![s].pc = "detected",
                  ![s].city_col = Detect(Df(s).columns, CitySynonyms),
                  ![s].date_col = Detect(Df(s).columns, DateSynonyms),
                  ![s].aqi_col = Detect(Df(s).columns, {AqiSynonym})]
    /\ UNCHANGED <<pandas, csv, cache, probe>>

\* app.py 39-42
Dates(s) ==
    /\ sess[s].pc = "detected"
    /\ Mutate(s, ConvertDate(Df(s), sess[s].date_col, pandas), "dated")
    /\ UNCHANGED <<pandas, csv, probe>>

\* app.py 55-56
Classify(s) ==
    /\ sess[s].pc = "dated"
    /\ Mutate(s, Categorise(Df(s), sess[s].aqi_col), "classified")
    /\ UNCHANGED <<pandas, csv, probe>>

\* app.py 63-83: the sidebar.  Each filter binds df to a new DataFrame; with
\* neither a city nor a Year column df stays the object it was.
Sidebar(s) ==
    /\ sess[s].pc = "classified"
    /\ LET df0 == Df(s)
           city_col == sess[s].city_col
           copts == CityOptions(df0, city_col)
       IN  \E sc \in SUBSET copts :
             LET df1 == FilterCities(df0, city_col, sc)
                 yopts == YearOptions(df1)
             IN  \E sy \in SUBSET yopts :
                   LET df2 == FilterYears(df1, sy)
                       rebound == city_col # None \/ HasCol(df1, YearName)
                   IN  \E p \in MetricChoices(NumericCols(df2)), n \in TopNChoices :
                         sess' = [sess EXCEPT
                            ![s].pc = "filtered",
                            ![s].ref = IF rebound THEN FALSE ELSE @,
                            ![s].df = IF rebound THEN df2 ELSE @,
                            ![s].city_options = copts,
                            ![s].selected_cities = sc,
                            ![s].year_options = yopts,
                            ![s].selected_years = sy,
                            ![s].pollutant = p,
                            ![s].top_n = n]
    /\ UNCHANGED <<pandas, csv, cache, probe>>

\* app.py 88-247: the tabs and the data table; an uncaught exception ends
\* the run with the error shown.
Render(s) ==
    /\ sess[s].pc = "filtered"
    /\ \E o \in Tabs(Df(s), sess[s].city_col, sess[s].pollutant,
                     sess[s].top_n, RaisesOnAllNA(pandas)) :
          sess' = [sess EXCEPT ![s].out = o,
                     ![s].pc = IF o.raised = "" THEN "done" ELSE "error"]
    /\ UNCHANGED <<pandas, csv, cache, probe>>

\* The user changes a widget: the script runs again from the top.
Rerun(s) ==
    /\ sess[s].pc \in {"done", "error"}
    /\ sess' = [sess EXCEPT ![s] = NewSession(TRUE)]
    /\ UNCHANGED <<pandas, csv, cache, probe>>

Next ==
    \E s \in Sessions :
        \/ LoadData(s) \/ Clean(s) \/ DetectColumns(s) \/ Dates(s)
        \/ Classify(s) \/ Sidebar(s) \/ Render(s) \/ Rerun(s)

Spec == Init /\ [][Next]_vars

-----------------------------------------------------------------------------
(* Two user sessions running the script concurrently against one cache.    *)

InitSessions ==
    /\ pandas \in PandasBuilds
    /\ \/ csv \in Files(CityDateAqi, FewCells, MaxRows)
       \/ csv \in Files(PmOnly, FewCells, MaxRows)
    /\ cache = [loaded |-> FALSE, table |-> EmptyFrame]
    /\ sess = [s \in Sessions |-> NewSession(TRUE)]
    /\ probe = NoProbe

SpecSessions == InitSessions /\ [][Next]_vars

-----------------------------------------------------------------------------
(* classify_aqi applied to one value.                                      *)

InitClassify ==
    /\ pandas \in PandasBuilds
    /\ csv = [columns |-> <<>>, kinds |-> <<>>, data |-> <<>>]
    /\ cache = [loaded |-> FALSE, table |-> EmptyFrame]
    /\ sess = [s \in Sessions |-> NewSession(FALSE)]
    /\ probe \in {[aqi |-> v, label |-> "", applied |-> FALSE] :
                    v \in (0 - BelowZero)..MaxAqi}

ApplyClassify ==
    /\ ~probe.applied
    /\ probe' = [probe EXCEPT !.label = classify_aqi(probe.aqi),
                              !.applied = TRUE]
    /\ UNCHANGED <<pandas, csv, cache, sess>>

NextClassify == ApplyClassify

SpecClassify == InitClassify /\ [][NextClassify]_vars

-----------------------------------------------------------------------------
(* Properties.  The expected values are written out from the rows, not     *)
(* through the operators above.                                            *)

Active == {s \in Sessions : sess[s].pc # "off"}

Finished(s) == sess[s].pc \in {"done", "error"}

PastSidebar(s) == sess[s].pc \in {"filtered", "done", "error"}

\* The unfiltered Table of a run: the file as loaded, cleaned and annotated.
Unfiltered ==
    LET d == CleanColumns(read_csv(csv))
    IN  Categorise(ConvertDate(d, Detect(d.columns, DateSynonyms), pandas),
                   Detect(d.columns, {AqiSynonym}))

RECURSIVE SumOver(_, _)
SumOver(f, S) ==
    IF S = {} THEN 0
    ELSE LET r == CHOOSE x \in S : TRUE IN f[r] + SumOver(f, S \ {r})

\* The mean of column val over the rows whose column key holds k, missing
\* values left out; NaN when none is present.
MeanWhere(df, key, k, val) ==
    LET R == {r \in 1..Len(df.data) :
                Column(df, key)[r] = k /\ Column(df, val)[r] # NaN}
    IN  IF R = {} THEN RNaN
        ELSE Rat(SumOver(Column(df, val), R), Cardinality(R))

\* The distinct years of a table (none without a Year column).
YearsOf(df) ==
    IF HasCol(df, YearName)
    THEN {Column(df, YearName)[r] : r \in 1..Len(df.data)} \ {NaN}
    ELSE {}

\* The distinct cities of a table.
CitiesOf(df, city_col) ==
    {Column(df, city_col)[r] : r \in 1..Len(df.data)} \ {NaOf(df, city_col)}

Bands == {"Good", "Satisfactory", "Moderate", "Poor", "Very Poor", "Severe"}

\* C1: classify_aqi(v) is Good for v <= 50, Satisfactory for 50 < v <= 100,
\* Moderate for 100 < v <= 200, Poor for 200 < v <= 300, Very Poor for
\* 300 < v <= 400 and Severe for v > 400; each threshold t falls in the lower
\* band and t + 1 in the next one.
C1_Bands ==
    probe.applied =>
        LET v == probe.aqi
            l == probe.label
        IN  /\ v <= 50 => l = "Good"
            /\ (50 < v /\ v <= 100) => l = "Satisfactory"
            /\ (100 < v /\ v <= 200) => l = "Moderate"
            /\ (200 < v /\ v <= 300) => l = "Poor"
            /\ (300 < v /\ v <= 400) => l = "Very Poor"
            /\ v > 400 => l = "Severe"
            /\ v \in {50, 51} => l = (IF v = 50 THEN "Good" ELSE "Satisfactory")
            /\ v \in {100, 101} => l = (IF v = 100 THEN "Satisfactory" ELSE "Moderate")
            /\ v \in {200, 201} => l = (IF v = 200 THEN "Moderate" ELSE "Poor")
            /\ v \in {300, 301} => l = (IF v = 300 THEN "Poor" ELSE "Very Poor")
            /\ v \in {400, 401} => l = (IF v = 400 THEN "Very Poor" ELSE "Severe")

\* C1 witness: the threshold 50 has been classified, in the lower band.
C1_Witness == probe.applied /\ probe.aqi = 50 /\ probe.label = "Good"

\* C2: with every offered city and every offered year selected, the filtered
\* Table equals the unfiltered Table, rows with a missing city or date
\* included.
C2_FullDefaultsKeepAll ==
    \A s \in Active :
        ( /\ PastSidebar(s)
          /\ sess[s].selected_cities = sess[s].city_options
          /\ sess[s].selected_years = sess[s].year_options )
        => Df(s) = Unfiltered

\* C3: the cities and the years offered are the distinct values of the
\* unfiltered Table, whatever cities are selected.
C3_OptionsFromUnfiltered ==
    \A s \in Active :
        PastSidebar(s) =>
            /\ sess[s].city_options = CityOptions(Unfiltered, sess[s].city_col)
            /\ sess[s].year_options = YearsOf(Unfiltered)

\* The user has deselected every city offered, or every year offered.
EmptySelection(s) ==
    \/ sess[s].city_options # {} /\ sess[s].selected_cities = {}
    \/ sess[s].year_options # {} /\ sess[s].selected_years = {}

\* C4: with all cities or all years deselected the filtered Table is empty,
\* the run completes without raising and every KPI is undefined.
C4_EmptySelectionCompletes ==
    \A s \in Active :
        (Finished(s) /\ EmptySelection(s)) =>
            /\ Df(s).data = <<>>
            /\ sess[s].pc = "done"
            /\ sess[s].out.raised = ""
            /\ IsNaN(sess[s].out.mean) /\ IsNaN(sess[s].out.max)
            /\ IsNaN(sess[s].out.min) /\ IsNaN(sess[s].out.var)
            /\ sess[s].out.worst_city = NaS /\ sess[s].out.best_city = NaS

\* C5: a run over a filtered Table with fewer than two year-groups shows no
\* prediction and shows an explicit "insufficient data" state.
C5_InsufficientDataShown ==
    \A s \in Active :
        ( /\ sess[s].pc = "done"
          /\ HasCol(Df(s), YearName)
          /\ Cardinality(YearsOf(Df(s))) < 2 )
        => /\ ~sess[s].out.forecast.shown
           /\ "insufficient_data" \in sess[s].out.rendered

\* The forecast a finished run must show: for max year + 1 and, when the two
\* year-groups are (y, m1) and (y + 1, m2), with the value m2 + (m2 - m1).
ForecastAsClaimed(s) ==
    LET df == Df(s)
        ys == YearsOf(df)
        hi == CHOOSE y \in ys : \A z \in ys : z <= y
        f  == sess[s].out.forecast
        m(y) == MeanWhere(df, YearName, y, sess[s].pollutant)
    IN  /\ sess[s].pc = "done"
        /\ f.shown
        /\ f.year = hi + 1
        /\ (ys = {hi - 1, hi}) =>
              f.value = RAdd(m(hi), RSub(m(hi), m(hi - 1)))

\* C6: with at least two year-groups in the filtered Table the forecast is
\* reported for max observed year + 1 from the per-year means of the
\* selected metric; two groups (y, m1), (y + 1, m2) predict m2 + (m2 - m1).
C6_ForecastReported ==
    \A s \in Active :
        (Finished(s) /\ Cardinality(YearsOf(Df(s))) >= 2) => ForecastAsClaimed(s)

\* The part of C6 the code meets: when the metric is not Year itself and
\* every year-group has a defined mean of it.
ForecastWhenMeansDefined ==
    \A s \in Active :
        ( /\ Finished(s)
          /\ Cardinality(YearsOf(Df(s))) >= 2
          /\ sess[s].pollutant # YearName
          /\ \A y \in YearsOf(Df(s)) :
                ~IsNaN(MeanWhere(Df(s), YearName, y, sess[s].pollutant)) )
        => ForecastAsClaimed(s)

\* 2020 with mean 100 and 2021 with mean 120 have given 140 for 2022.
ForecastExample ==
    \E s \in Active :
        /\ sess[s].pc = "done"
        /\ YearsOf(Df(s)) = {2020, 2021}
        /\ MeanWhere(Df(s), YearName, 2020, sess[s].pollutant) = Rat(100, 1)
        /\ MeanWhere(Df(s), YearName, 2021, sess[s].pollutant) = Rat(120, 1)
        /\ sess[s].out.forecast = [shown |-> TRUE, year |-> 2022, value |-> Rat(140, 1)]

\* C7: the ranking holds min(N, number of city groups) entries, one per
\* city, each with that city's mean of the selected metric, in descending
\* order of mean (cities without a mean last); no city left out ranks above
\* one shown; with N at least the number of groups every city is shown.
C7_TopN ==
    \A s \in Active :
        "top_bar" \in sess[s].out.rendered =>
            LET df == Df(s)
                cities == CitiesOf(df, sess[s].city_col)
                td == sess[s].out.top_data
                n == sess[s].top_n
                shown == {td[i].key : i \in 1..Len(td)}
                m(c) == MeanWhere(df, sess[s].city_col, c, sess[s].pollutant)
            IN  /\ Len(td) = (IF n < Cardinality(cities) THEN n ELSE Cardinality(cities))
                /\ shown \subseteq cities
                /\ Cardinality(shown) = Len(td)
                /\ \A i \in 1..Len(td) : td[i].mean = m(td[i].key)
                /\ \A i, j \in 1..Len(td) : i < j =>
                      \/ IsNaN(td[j].mean)
                      \/ ~IsNaN(td[i].mean) /\ ~RLt(td[i].mean, td[j].mean)
                /\ \A c \in cities \ shown : \A i \in 1..Len(td) :
                      \/ IsNaN(m(c))
                      \/ ~IsNaN(td[i].mean) /\ ~RLt(td[i].mean, m(c))
                /\ n >= Cardinality(cities) => shown = cities

\* C7 witness: a ranking of two cities with different means, highest first.
C7_Witness ==
    \E s \in Active :
        /\ "top_bar" \in sess[s].out.rendered
        /\ Len(sess[s].out.top_data) = 2
        /\ RLt(sess[s].out.top_data[2].mean, sess[s].out.top_data[1].mean)

\* C8: a row whose AQI is missing gets no category: none of the six bands.
C8_MissingAqiNoCategory ==
    \A s \in Active :
        (sess[s].pc = "classified" /\ sess[s].aqi_col # None) =>
            \A r \in 1..Len(Df(s).data) :
                Column(Df(s), sess[s].aqi_col)[r] = NaN =>
                    Column(Df(s), CategoryName)[r] \notin Bands

\* C9: the cached Table stays the Table read from the file, and every run
\* starts from exactly that Table, whatever the runs of this or another
\* session have renamed, annotated or filtered.
C9_CacheUnchanged ==
    /\ cache.loaded => cache.table = read_csv(csv)
    /\ \A s \in Active : sess[s].pc = "loaded" => Df(s) = read_csv(csv)

\* C9 witness: one session has finished a run on its annotated, filtered
\* Table while the other has just obtained the Table from load_data.
C9_Witness ==
    \E s, t \in Active :
        /\ s # t
        /\ sess[s].pc = "done"
        /\ HasCol(Df(s), CategoryName)
        /\ Len(Df(s).data) < Len(cache.table.data)
        /\ sess[t].pc = "loaded"

\* The run called model.fit: it showed a prediction or fit raised.
FitAttempted(s) ==
    sess[s].out.forecast.shown \/ sess[s].out.raised = "tab4: model.fit"

\* C10: the fit is attempted only with at least two year-groups whose mean
\* of the selected metric is defined, and no undefined mean is passed to it.
C10_FitOnlyOnDefinedMeans ==
    \A s \in Active :
        (Finished(s) /\ FitAttempted(s)) =>
            /\ Cardinality({y \in YearsOf(Df(s)) :
                  ~IsNaN(MeanWhere(Df(s), YearName, y, sess[s].pollutant))}) >= 2
            /\ \A i \in 1..Len(sess[s].out.yearly) :
                  ~IsNaN(sess[s].out.yearly[i].mean)

====
